---- MODULE Spec2Model ----
(***************************************************************************)
(* LectureLens (src/App.tsx): the speech-playback pipeline of the App      *)
(* component and the lecture-processing handlers around it.                *)
(*                                                                         *)
(*  - decodeBase64 / decodeAudioDataToBuffer are pure functions and are    *)
(*    modelled as operators over sequences of bytes.  A decoded sample is  *)
(*    the exact rational num/den (den = 32768); every such quotient of a   *)
(*    16-bit integer is representable in a Float32Array without rounding.  *)
(*  - The App component is a state machine over its React state, the       *)
(*    values captured by the closures of the last render, the audio        *)
(*    context reference and the asynchronous invocations in flight.        *)
(***************************************************************************)
EXTENDS Integers, Sequences, FiniteSets, TLC

VARIABLES
    isAppReady,       \* useState(false), line 71
    rawInput,         \* useState(''), line 63
    selectedFile,     \* useState(null), line 64
    isProcessing,     \* useState(false), line 65
    errorMsg,         \* useState(null), line 66
    lecture,          \* useState(null), line 67
    activeSectionId,  \* useState(null), line 68
    isSpeaking,       \* useState(false), line 70
    audioContextRef,  \* useRef(null), line 72: 0 is null, n > 0 the n-th context built
    rendered,         \* the state values captured by the closures of the last render
    sessions,         \* handleSpeakOverview invocations suspended at an await / playing
    requests,         \* handleProcess invocations suspended at their await
    reads,            \* FileReader reads started by onFileSelect and not yet loaded
    last,             \* history: the handleSpeakOverview invocation that finished last
    event,            \* history: the handler or callback that ran last, and its branch
    ctxCount,         \* history: number of AudioContext objects constructed
    dec               \* harness of the decoder: its input and its result

vars == <<isAppReady, rawInput, selectedFile, isProcessing, errorMsg, lecture,
          activeSectionId, isSpeaking, audioContextRef, rendered, sessions,
          requests, reads, last, event, ctxCount, dec>>

appVars == <<isAppReady, rawInput, selectedFile, isProcessing, errorMsg, lecture,
             activeSectionId, isSpeaking, audioContextRef, rendered, sessions,
             requests, reads, last, event, ctxCount>>

-----------------------------------------------------------------------------
(* Bounds of the model *)

\* longest interleaved sample sequence handed to the decoder harness
MaxSamples == 4
\* largest channel count handed to the decoder harness
MaxChannels == 2
\* handleSpeakOverview invocations that may be suspended at the same time
MaxInFlight == 2
\* handleProcess invocations that may be suspended at the same time
MaxRequests == 2
\* FileReader reads that may be pending at the same time
MaxReads == 1

-----------------------------------------------------------------------------
(* Program constants *)

\* the normalisation divisor of line 56
Divisor == 32768
\* the channel count passed at line 142
TtsChannels == 1

-----------------------------------------------------------------------------
(* Sequences *)

RECURSIVE SeqsUpTo(_, _)
SeqsUpTo(S, n) ==
    IF n = 0 THEN {<<>>}
    ELSE LET shorter == SeqsUpTo(S, n - 1)
         IN  shorter \cup {Append(s, x) : s \in {t \in shorter : Len(t) = n - 1}, x \in S}

Abs(x) == IF x < 0 THEN -x ELSE x

-----------------------------------------------------------------------------
(* decodeBase64, lines 34-42.  A base64 text is a sequence of characters:  *)
(* 0..63 is a character of the alphabet (its 6-bit value), PadChar is '=', *)
(* BadChar a character outside the alphabet, SpaceChar ASCII whitespace.   *)

PadChar == 64
BadChar == 65
SpaceChar == 66

\* atob step 1: ASCII whitespace is removed
StripSpace(s) == SelectSeq(s, LAMBDA c : c # SpaceChar)

\* atob step 2: when the length is a multiple of 4, one or two trailing '=' are removed
StripPad(s) ==
    LET n == Len(s)
    IN  IF n > 0 /\ n % 4 = 0 /\ s[n] = PadChar
        THEN IF s[n - 1] = PadChar THEN SubSeq(s, 1, n - 2) ELSE SubSeq(s, 1, n - 1)
        ELSE s

\* atob steps 3-4: length 1 mod 4, or a character outside the alphabet, throws
AtobThrows(s) ==
    LET t == StripPad(StripSpace(s))
    IN  \/ Len(t) % 4 = 1
        \/ \E i \in 1..Len(t) : t[i] > 63

\* atob steps 5-10: every 4 characters give 3 bytes; 2 left-over characters
\* give 1 byte and 3 give 2 (the unused low bits are discarded)
Atob(s) ==
    LET t == StripPad(StripSpace(s))
        n == Len(t)
        outLen == (n \div 4) * 3 + (IF n % 4 = 2 THEN 1 ELSE IF n % 4 = 3 THEN 2 ELSE 0)
        ch(i) == IF i <= n THEN t[i] ELSE 0
        group(g) == ch(4 * g + 1) * 262144 + ch(4 * g + 2) * 4096
                    + ch(4 * g + 3) * 64 + ch(4 * g + 4)
        byte(k) == LET v == group(k \div 3)
                   IN  IF k % 3 = 0 THEN v \div 65536
                       ELSE IF k % 3 = 1 THEN (v \div 256) % 256
                       ELSE v % 256
    IN  [k \in 1..outLen |-> byte(k - 1)]

\* lines 35-41: the char codes of atob's binary string, copied into a Uint8Array
decodeBase64(base64) ==
    IF AtobThrows(base64)
    THEN [ok |-> FALSE, error |-> "InvalidCharacterError", bytes |-> <<>>]
    ELSE [ok |-> TRUE, error |-> "", bytes |-> Atob(base64)]

-----------------------------------------------------------------------------
(* decodeAudioDataToBuffer, lines 44-60 *)

\* the two bytes read low byte first, without the sign
Int16AtUnsigned(data, j) == data[2 * j + 1] + 256 * data[2 * j + 2]

\* the two bytes read high byte first
Int16AtBigEndian(data, j) ==
    LET u == 256 * data[2 * j + 1] + data[2 * j + 2]
    IN  IF u >= 32768 THEN u - 65536 ELSE u

\* element j (from 0) of new Int16Array(data.buffer): two bytes, low byte first,
\* read as a signed 16-bit integer
Int16At(data, j) ==
    LET u == data[2 * j + 1] + 256 * data[2 * j + 2]
    IN  IF u >= 32768 THEN u - 65536 ELSE u

\* line 50: the view over the bytes, as the sequence of its elements
Int16Array(data) == [j \in 1..(Len(data) \div 2) |-> Int16At(data, j - 1)]

\* line 50: the constructor throws a RangeError unless the byte length is a
\* multiple of the element size
Int16ArrayThrows(data) == Len(data) % 2 # 0

\* line 52: createBuffer takes its length as an unsigned long, so the quotient
\* n / numChannels of line 51 is truncated
BufferLength(n, numChannels) == n \div numChannels

\* line 52: createBuffer throws a NotSupportedError for a length of zero
CreateBufferThrows(n, numChannels) == BufferLength(n, numChannels) = 0

\* what a sample is: num/den; NaN is what undefined / 32768.0 gives
NaN == [num |-> 0, den |-> 0]
Silence == [num |-> 0, den |-> Divisor]

\* the samples read channel after channel instead of frame after frame
NormalizedPlanar(int16, n, numChannels, ch, i) ==
    LET idx == ch * (n \div numChannels) + i
    IN  IF idx < n THEN [num |-> int16[idx + 1], den |-> Divisor] ELSE NaN

\* line 56: the value assigned in iteration i of channel ch
Normalized(int16, n, numChannels, ch, i) ==
    LET idx == i * numChannels + ch
    IN  IF idx < n THEN [num |-> int16[idx + 1], den |-> Divisor] ELSE NaN

\* lines 53-58: channel ch after the loops.  Iteration i runs while
\* i < n / numChannels, i.e. i * numChannels < n; the buffer starts silent and
\* an assignment beyond its length is ignored
ChannelData(int16, n, numChannels, ch) ==
    [f \in 1..BufferLength(n, numChannels) |->
        IF (f - 1) * numChannels < n
        THEN Normalized(int16, n, numChannels, ch, f - 1)
        ELSE Silence]

NoBuffer == [ok |-> FALSE, error |-> "", channels |-> <<>>]

decodeAudioDataToBuffer(data, numChannels) ==
    IF Int16ArrayThrows(data)
    THEN [ok |-> FALSE, error |-> "RangeError", channels |-> <<>>]
    ELSE LET int16 == Int16Array(data)
             n == Len(int16)
         IN  IF CreateBufferThrows(n, numChannels)
             THEN [ok |-> FALSE, error |-> "NotSupportedError", channels |-> <<>>]
             ELSE [ok |-> TRUE, error |-> "",
                   channels |-> [c \in 1..numChannels |->
                                    ChannelData(int16, n, numChannels, c - 1)]]

-----------------------------------------------------------------------------
(* The decoder harness: interleaved 16-bit samples are encoded low byte    *)
(* first, optionally followed by one stray byte, and decoded.              *)

SampleValues == {-32768, -300, -1, 100, 32767}
StrayBytes == {<<>>, <<0>>, <<255>>}

\* the two bytes of a signed 16-bit integer, low byte first
EncodeLE(s) ==
    LET u == IF s < 0 THEN s + 65536 ELSE s
    IN  <<u % 256, u \div 256>>

RECURSIVE EncodePcm(_)
EncodePcm(pcm) ==
    IF pcm = <<>> THEN <<>> ELSE EncodeLE(Head(pcm)) \o EncodePcm(Tail(pcm))

\* two channels of three frames
ScenarioPcm == <<100, -100, 200, -200, 300, -300>>

DecInputs ==
    {[pcm |-> p, stray |-> t, numChannels |-> c, data |-> EncodePcm(p) \o t,
      done |-> FALSE, result |-> NoBuffer] :
        p \in SeqsUpTo(SampleValues, MaxSamples) \cup {ScenarioPcm},
        t \in StrayBytes, c \in 1..MaxChannels}

DecIdle == [pcm |-> <<>>, stray |-> <<>>, numChannels |-> TtsChannels, data |-> <<>>,
            done |-> FALSE, result |-> NoBuffer]

Decode ==
    /\ ~dec.done
    /\ dec' = [dec EXCEPT !.done = TRUE,
                          !.result = decodeAudioDataToBuffer(dec.data, dec.numChannels)]
    /\ UNCHANGED appVars

-----------------------------------------------------------------------------
(* The App component, lines 62-152 and the handlers bound in its JSX *)

Null == "null"

\* values the textarea can hold: empty, whitespace only, text
RawInputs == {"", " ", "notes"}
Blank(text) == text \in {"", " "}

\* files a user can pick
Files == {"doc"}

\* lectures processLectureContent can return, and their section ids in order
Lectures == {"L0", "L1"}
Sections(l) == IF l = "L1" THEN <<"a", "b">> ELSE <<>>

\* what the remote TTS call can settle with: a rejection, or a response whose
\* candidates?.[0]?.content?.parts?.[0]?.inlineData?.data is undefined or a string
RejectedCall == [kind |-> "reject", hasData |-> FALSE, data |-> <<>>]
NoInlineData == [kind |-> "resolve", hasData |-> FALSE, data |-> <<>>]
Payloads ==
    { <<>>,                        \* ""
      <<0, 8, 0, PadChar>>,        \* "AIA=": bytes 00 80, one sample
      <<0, 0, PadChar, PadChar>>,  \* "AA==": one byte
      <<SpaceChar>>,               \* " ": no byte
      <<BadChar>> }                \* "!": not base64
Responses ==
    {RejectedCall, NoInlineData}
        \cup {[kind |-> "resolve", hasData |-> TRUE, data |-> d] : d \in Payloads}

\* the values the closures of a render capture
View(ready, raw, file, proc, lec, spk) ==
    [isAppReady |-> ready, rawInput |-> raw, selectedFile |-> file,
     isProcessing |-> proc, lecture |-> lec, isSpeaking |-> spk]

\* line 154: nothing is mounted before isAppReady; line 159: the landing page
\* is mounted while lecture is null, the studio otherwise
LandingMounted == rendered.isAppReady /\ rendered.lecture = Null
StudioMounted == rendered.isAppReady /\ rendered.lecture # Null

\* an await that resumed in a task of its own, behind whatever is queued
AwaitYieldsToTasks == FALSE

\* an invocation suspended at `await decodeAudioDataToBuffer(...)`, line 142,
\* resumes in the microtask checkpoint that ends the current task, before any
\* other event, timer or response is dispatched
MicrotaskPending == \E i \in 1..Len(sessions) : sessions[i].pc = "awaitDecode"

\* the update is rendered only by a later render
FlushLater == UNCHANGED rendered

\* a state update made inside a React event handler is rendered before the
\* event ends: the closures bound afterwards capture the new values.  An
\* update made from a timer, a FileReader, an audio node or the continuation
\* of an await is rendered by a later Render step, until which the bound
\* closures keep the values of the previous render
Flush ==
    rendered' = View(isAppReady', rawInput', selectedFile', isProcessing',
                     lecture', isSpeaking')

RemoveAt(seq, i) == SubSeq(seq, 1, i - 1) \o SubSeq(seq, i + 1, Len(seq))

NoLast == [outcome |-> "none", error |-> "", response |-> NoInlineData, ctx |-> 0,
           audioBuffer |-> NoBuffer, started |-> FALSE, logged |-> FALSE,
           rejected |-> FALSE]

Init ==
    /\ isAppReady = FALSE
    /\ rawInput = ""
    /\ selectedFile = Null
    /\ isProcessing = FALSE
    /\ errorMsg = Null
    /\ lecture = Null
    /\ activeSectionId = Null
    /\ isSpeaking = FALSE
    /\ audioContextRef = 0
    /\ rendered = View(FALSE, "", Null, FALSE, Null, FALSE)
    /\ sessions = <<>>
    /\ requests = <<>>
    /\ reads = 0
    /\ last = NoLast
    /\ event = "init"
    /\ ctxCount = 0
    /\ dec = DecIdle

\* lines 76-79: the mount timer
MountTimer ==
    /\ ~MicrotaskPending
    /\ ~isAppReady
    /\ isAppReady' = TRUE
    /\ event' = "mountTimer"
    /\ UNCHANGED <<rawInput, selectedFile, isProcessing, errorMsg, lecture,
                   activeSectionId, isSpeaking, audioContextRef, rendered, sessions,
                   requests, reads, last, ctxCount, dec>>

\* line 62: React calls App again after state updates made outside an event handler
Render ==
    /\ ~MicrotaskPending
    /\ rendered # View(isAppReady, rawInput, selectedFile, isProcessing, lecture, isSpeaking)
    /\ rendered' = View(isAppReady, rawInput, selectedFile, isProcessing, lecture, isSpeaking)
    /\ event' = "render"
    /\ UNCHANGED <<isAppReady, rawInput, selectedFile, isProcessing, errorMsg, lecture,
                   activeSectionId, isSpeaking, audioContextRef, sessions, requests,
                   reads, last, ctxCount, dec>>

\* line 201: the textarea's onChange
SetRawInput(text) ==
    /\ ~MicrotaskPending
    /\ LandingMounted
    /\ text # rendered.rawInput
    /\ rawInput' = text
    /\ event' = "setRawInput"
    /\ UNCHANGED <<isAppReady, selectedFile, isProcessing, errorMsg, lecture,
                   activeSectionId, isSpeaking, audioContextRef, sessions, requests,
                   reads, last, ctxCount, dec>>
    /\ Flush

\* lines 103-118: onFileSelect starts a FileReader read of the chosen file
onFileSelect ==
    /\ ~MicrotaskPending
    /\ LandingMounted
    /\ reads < MaxReads
    /\ reads' = reads + 1
    /\ event' = "onFileSelect"
    /\ UNCHANGED <<isAppReady, rawInput, selectedFile, isProcessing, errorMsg, lecture,
                   activeSectionId, isSpeaking, audioContextRef, rendered, sessions,
                   requests, last, ctxCount, dec>>

\* lines 107-115: reader.onload
ReaderOnload(file) ==
    /\ ~MicrotaskPending
    /\ reads > 0
    /\ reads' = reads - 1
    /\ selectedFile' = file
    /\ rawInput' = ""
    /\ errorMsg' = Null
    /\ event' = "readerOnload"
    /\ UNCHANGED <<isAppReady, isProcessing, lecture, activeSectionId, isSpeaking,
                   audioContextRef, rendered, sessions, requests, last, ctxCount, dec>>

\* line 233: the Discard button
DiscardFile ==
    /\ ~MicrotaskPending
    /\ LandingMounted
    /\ rendered.selectedFile # Null
    /\ selectedFile' = Null
    /\ event' = "discardFile"
    /\ UNCHANGED <<isAppReady, rawInput, isProcessing, errorMsg, lecture,
                   activeSectionId, isSpeaking, audioContextRef, sessions, requests,
                   reads, last, ctxCount, dec>>
    /\ Flush

\* line 243: the launch button's disabled attribute
ProcessDisabled ==
    rendered.isProcessing \/ (Blank(rendered.rawInput) /\ rendered.selectedFile = Null)

\* line 82: the guard of handleProcess
ProcessGuard == Blank(rendered.rawInput) /\ rendered.selectedFile = Null

\* a start that left the previous message in place
ErrorKeptAtStart == errorMsg

\* line 84: setErrorMsg(null)
ErrorAtStart == Null

\* a request that preferred typed text to the selected file
ProcessingInputTextFirst ==
    [input |-> IF ~Blank(rendered.rawInput) THEN "text" ELSE "file",
     file |-> IF ~Blank(rendered.rawInput) THEN Null ELSE rendered.selectedFile,
     text |-> IF ~Blank(rendered.rawInput) THEN rendered.rawInput ELSE ""]

\* lines 85-87: the input submitted, the file if one is selected, else the text
ProcessingInput ==
    [input |-> IF rendered.selectedFile # Null THEN "file" ELSE "text",
     file |-> rendered.selectedFile,
     text |-> IF rendered.selectedFile # Null THEN "" ELSE rendered.rawInput]

\* lines 81-90: a call of handleProcess, up to its await
handleProcessCall ==
    /\ UNCHANGED <<isAppReady, rawInput, selectedFile, lecture, activeSectionId,
                   isSpeaking, audioContextRef, sessions, reads, last, ctxCount, dec>>
    /\ IF ProcessGuard
       THEN /\ event' = "handleProcess:ignored"
            /\ UNCHANGED <<isProcessing, errorMsg, requests, rendered>>
       ELSE /\ Len(requests) < MaxRequests
            /\ isProcessing' = TRUE
            /\ errorMsg' = ErrorAtStart
            /\ requests' = Append(requests, ProcessingInput)
            /\ event' = "handleProcess:started"
            /\ Flush

\* lines 242-243: a click on the launch button, which the landing page mounts
\* and disables
handleProcess ==
    /\ ~MicrotaskPending
    /\ LandingMounted
    /\ ~ProcessDisabled
    /\ handleProcessCall

\* a handler without the finally clause of lines 98-100, clearing the flag
\* only at the end of the try block
ProcessSettleNoFinally(i, resolved, result) ==
    /\ ~MicrotaskPending
    /\ i \in 1..Len(requests)
    /\ requests' = RemoveAt(requests, i)
    /\ IF resolved
       THEN /\ lecture' = result
            /\ activeSectionId' = IF Len(Sections(result)) > 0
                                  THEN Sections(result)[1] ELSE activeSectionId
            /\ isProcessing' = FALSE
            /\ UNCHANGED errorMsg
            /\ event' = "process:resolved"
       ELSE /\ errorMsg' = "error"
            /\ UNCHANGED <<lecture, activeSectionId, isProcessing>>
            /\ event' = "process:rejected"
    /\ UNCHANGED <<isAppReady, rawInput, selectedFile, isSpeaking, audioContextRef,
                   rendered, sessions, reads, last, ctxCount, dec>>

\* lines 90-100: processLectureContent settles
ProcessSettle(i, resolved, result) ==
    /\ ~MicrotaskPending
    /\ i \in 1..Len(requests)
    /\ requests' = RemoveAt(requests, i)
    /\ IF resolved
       THEN /\ lecture' = result
            /\ activeSectionId' = IF Len(Sections(result)) > 0
                                  THEN Sections(result)[1] ELSE activeSectionId
            /\ UNCHANGED errorMsg
            /\ event' = "process:resolved"
       ELSE /\ errorMsg' = "error"
            /\ UNCHANGED <<lecture, activeSectionId>>
            /\ event' = "process:rejected"
    /\ isProcessing' = FALSE
    /\ UNCHANGED <<isAppReady, rawInput, selectedFile, isSpeaking, audioContextRef,
                   rendered, sessions, reads, last, ctxCount, dec>>

\* line 288: a section button of the sidebar (the sidebar's own open flag is
\* presentational and is not part of the model)
SelectSection(sid) ==
    /\ ~MicrotaskPending
    /\ StudioMounted
    /\ \E k \in 1..Len(Sections(rendered.lecture)) : Sections(rendered.lecture)[k] = sid
    /\ activeSectionId' = sid
    /\ event' = "selectSection"
    /\ UNCHANGED <<isAppReady, rawInput, selectedFile, isProcessing, errorMsg, lecture,
                   isSpeaking, audioContextRef, sessions, requests, reads, last,
                   ctxCount, dec>>
    /\ Flush

\* a reset that also cancelled the speech in progress
ResetWorkspaceCancels ==
    /\ ~MicrotaskPending
    /\ StudioMounted
    /\ lecture' = Null
    /\ isSpeaking' = FALSE
    /\ sessions' = <<>>
    /\ event' = "resetWorkspace"
    /\ UNCHANGED <<isAppReady, rawInput, selectedFile, isProcessing, errorMsg,
                   activeSectionId, audioContextRef, requests, reads, last, ctxCount,
                   dec>>
    /\ Flush

\* line 301: Reset Workspace
ResetWorkspace ==
    /\ ~MicrotaskPending
    /\ StudioMounted
    /\ lecture' = Null
    /\ event' = "resetWorkspace"
    /\ UNCHANGED <<isAppReady, rawInput, selectedFile, isProcessing, errorMsg,
                   activeSectionId, isSpeaking, audioContextRef, sessions, requests,
                   reads, last, ctxCount, dec>>
    /\ Flush

-----------------------------------------------------------------------------
(* handleSpeakOverview, lines 120-152 *)

\* a guard that only looked at the busy flag
SpeakGuardSpeakingOnly == rendered.isSpeaking

\* the guard without its isSpeaking test
SpeakGuardLectureOnly == rendered.lecture = Null

\* line 121: the guard, over the values its closure captured
SpeakGuard == rendered.lecture = Null \/ rendered.isSpeaking

\* a test for undefined only, which lets the empty string through
HasAudioDefined(response) == response.hasData

\* line 137: `if (base64Audio)`: undefined and the empty string are falsy
HasAudio(response) == response.hasData /\ response.data # <<>>

\* a context built for every playback
NeedsContextAlways == TRUE

\* line 138: `if (!audioContextRef.current)`
NeedsContext == audioContextRef = 0

\* a catch clause that takes the remote call's errors only
CaughtRemoteOnly(kind) == kind = "RemoteCallError"

\* lines 123 and 150: the try block spans everything after setIsSpeaking(true)
\* and its catch clause takes every error
ErrorKinds == {"RemoteCallError", "EncodingError", "DecodeError", "DeviceError"}
Caught(kind) == kind \in ErrorKinds

\* a decoder whose errors do not reach the caller
AwaitNeverThrows(promise) == FALSE

\* line 142: awaiting a rejected promise throws inside the try block
AwaitThrows(promise) == ~promise.ok

\* an invocation that goes on to line 151 after source.start()
FallsThroughAfterStart == FALSE

\* line 148: the invocation returns after source.start()
ReturnsAfterStart == TRUE

\* the locals of an invocation suspended at `await ai.models.generateContent`
NewSession == [pc |-> "requesting", response |-> NoInlineData, ctx |-> 0,
               audioBuffer |-> NoBuffer, started |-> FALSE]

Finished(s, outcome, error, logged, rejected) ==
    [outcome |-> outcome, error |-> error, response |-> s.response, ctx |-> s.ctx,
     audioBuffer |-> s.audioBuffer, started |-> s.started, logged |-> logged,
     rejected |-> rejected]

\* lines 150-151: an error thrown inside the try block is logged and the
\* invocation falls through to setIsSpeaking(false); an error that no catch
\* clause took would reject the invocation's promise instead
Throw(i, s, kind, error) ==
    /\ sessions' = RemoveAt(sessions, i)
    /\ IF Caught(kind)
       THEN /\ isSpeaking' = FALSE
            /\ last' = Finished(s, kind, error, TRUE, FALSE)
       ELSE /\ UNCHANGED isSpeaking
            /\ last' = Finished(s, kind, error, FALSE, TRUE)

\* lines 120-134: a call of handleSpeakOverview, up to its first await
handleSpeakOverviewCall ==
    /\ UNCHANGED <<isAppReady, rawInput, selectedFile, isProcessing, errorMsg, lecture,
                   activeSectionId, audioContextRef, requests, reads, last, ctxCount, dec>>
    /\ IF SpeakGuard
       THEN /\ event' = "handleSpeakOverview:ignored"
            /\ UNCHANGED <<isSpeaking, sessions, rendered>>
       ELSE /\ Len(sessions) < MaxInFlight
            /\ isSpeaking' = TRUE
            /\ sessions' = Append(sessions, NewSession)
            /\ event' = "handleSpeakOverview:started"
            /\ Flush

\* line 331: a click on the speak button, which only the studio mounts
handleSpeakOverview ==
    /\ ~MicrotaskPending
    /\ StudioMounted
    /\ handleSpeakOverviewCall

\* lines 134-142 and 149-151: the remote call settles and the invocation runs
\* to its next await or to its end
TtsSettle(i, response, ctxBuilt) ==
    /\ ~MicrotaskPending
    /\ i \in 1..Len(sessions)
    /\ sessions[i].pc = "requesting"
    /\ event' = "ttsSettle"
    /\ LET s == [sessions[i] EXCEPT !.response = response]
       IN  IF response.kind = "reject"
           THEN /\ Throw(i, s, "RemoteCallError", "rejected")
                /\ UNCHANGED <<audioContextRef, ctxCount>>
           ELSE IF ~HasAudio(response)
           THEN \* line 151
                /\ sessions' = RemoveAt(sessions, i)
                /\ isSpeaking' = FALSE
                /\ last' = Finished(s, "EmptyResponse", "", FALSE, FALSE)
                /\ UNCHANGED <<audioContextRef, ctxCount>>
           ELSE IF NeedsContext /\ ~ctxBuilt
           THEN \* line 139: the AudioContext constructor throws
                /\ Throw(i, s, "DeviceError", "AudioContext")
                /\ UNCHANGED <<audioContextRef, ctxCount>>
           ELSE /\ audioContextRef' = IF NeedsContext THEN ctxCount + 1
                                      ELSE audioContextRef
                /\ ctxCount' = IF NeedsContext THEN ctxCount + 1 ELSE ctxCount
                /\ LET t == [s EXCEPT !.ctx = audioContextRef']
                       bytes == decodeBase64(response.data)
                   IN  IF ~bytes.ok
                       THEN Throw(i, t, "EncodingError", bytes.error)
                       ELSE /\ sessions' = [sessions EXCEPT ![i] =
                                   [t EXCEPT !.pc = "awaitDecode",
                                             !.audioBuffer = decodeAudioDataToBuffer(
                                                                 bytes.bytes, TtsChannels)]]
                            /\ UNCHANGED <<isSpeaking, last>>
    /\ UNCHANGED <<isAppReady, rawInput, selectedFile, isProcessing, errorMsg, lecture,
                   activeSectionId, rendered, requests, reads, dec>>

\* lines 142-148 and 150-151: the invocation resumes with the decoder's promise
DecodeContinue(i, sourceBuilt) ==
    /\ i \in 1..Len(sessions)
    /\ sessions[i].pc = "awaitDecode"
    /\ event' = "decodeContinue"
    /\ LET s == sessions[i]
       IN  IF AwaitThrows(s.audioBuffer)
           THEN Throw(i, s, "DecodeError", s.audioBuffer.error)
           ELSE IF ~sourceBuilt
           THEN \* lines 143-147: the context refuses the source or the buffer
                Throw(i, s, "DeviceError", "AudioBufferSourceNode")
           ELSE \* line 147: source.start(), line 148: return
                /\ sessions' = [sessions EXCEPT ![i] =
                                   [s EXCEPT !.pc = "playing", !.started = TRUE]]
                /\ isSpeaking' = IF ReturnsAfterStart THEN isSpeaking ELSE FALSE
                /\ UNCHANGED last
    /\ UNCHANGED <<isAppReady, rawInput, selectedFile, isProcessing, errorMsg, lecture,
                   activeSectionId, audioContextRef, rendered, requests, reads,
                   ctxCount, dec>>

\* line 146: source.onended
OnEnded(i) ==
    /\ ~MicrotaskPending
    /\ i \in 1..Len(sessions)
    /\ sessions[i].pc = "playing"
    /\ isSpeaking' = FALSE
    /\ sessions' = RemoveAt(sessions, i)
    /\ last' = Finished(sessions[i], "Played", "", FALSE, FALSE)
    /\ event' = "onended"
    /\ UNCHANGED <<isAppReady, rawInput, selectedFile, isProcessing, errorMsg, lecture,
                   activeSectionId, audioContextRef, rendered, requests, reads,
                   ctxCount, dec>>

-----------------------------------------------------------------------------
(* Specifications *)

Settles == \E i \in 1..Len(sessions), r \in Responses, b \in BOOLEAN : TtsSettle(i, r, b)
Continues == \E i \in 1..Len(sessions), b \in BOOLEAN : DecodeContinue(i, b)
Ends == \E i \in 1..Len(sessions) : OnEnded(i)

Next ==
    \/ MountTimer
    \/ Render
    \/ \E text \in RawInputs : SetRawInput(text)
    \/ onFileSelect
    \/ \E file \in Files : ReaderOnload(file)
    \/ DiscardFile
    \/ handleProcess
    \/ \E i \in 1..Len(requests), result \in Lectures : ProcessSettle(i, TRUE, result)
    \/ \E i \in 1..Len(requests) : ProcessSettle(i, FALSE, Null)
    \/ \E sid \in {"a", "b"} : SelectSection(sid)
    \/ ResetWorkspace
    \/ handleSpeakOverview
    \/ Settles
    \/ Continues
    \/ Ends

Spec == Init /\ [][Next]_vars

\* the remote call settles, the microtask checkpoint runs and the device
\* delivers its end-of-playback notification
FairSpec ==
    /\ Init /\ [][Next]_vars
    /\ WF_vars(Settles) /\ WF_vars(Continues) /\ WF_vars(Ends)

\* the decoder applied to every input of the harness
DecInit ==
    /\ isAppReady = FALSE
    /\ rawInput = ""
    /\ selectedFile = Null
    /\ isProcessing = FALSE
    /\ errorMsg = Null
    /\ lecture = Null
    /\ activeSectionId = Null
    /\ isSpeaking = FALSE
    /\ audioContextRef = 0
    /\ rendered = View(FALSE, "", Null, FALSE, Null, FALSE)
    /\ sessions = <<>>
    /\ requests = <<>>
    /\ reads = 0
    /\ last = NoLast
    /\ event = "init"
    /\ ctxCount = 0
    /\ dec \in DecInputs

DecNext == Decode

DecSpec == DecInit /\ [][DecNext]_vars

\* the two handlers called as functions, whatever the page shows, in states
\* the component reaches: a remote call of either kind may be pending, a
\* lecture may be loaded, and the last render has captured the current state
CallInit ==
    /\ isAppReady = TRUE
    /\ rawInput \in RawInputs
    /\ selectedFile \in Files \cup {Null}
    /\ lecture \in Lectures \cup {Null}
    /\ isProcessing \in BOOLEAN
    /\ errorMsg \in {Null, "error"}
    /\ isSpeaking \in BOOLEAN
    /\ (isProcessing \/ errorMsg # Null) => lecture = Null
    /\ isProcessing => errorMsg = Null
    /\ activeSectionId = IF lecture # Null /\ Len(Sections(lecture)) > 0
                         THEN Sections(lecture)[1] ELSE Null
    /\ audioContextRef = 0
    /\ rendered = View(isAppReady, rawInput, selectedFile, isProcessing, lecture,
                       isSpeaking)
    /\ sessions = IF isSpeaking THEN <<NewSession>> ELSE <<>>
    /\ requests = IF isProcessing
                  THEN <<[input |-> "text", file |-> Null, text |-> "notes"]>>
                  ELSE <<>>
    /\ reads = 0
    /\ last = NoLast
    /\ event = "init"
    /\ ctxCount = 0
    /\ dec = DecIdle

CallNext ==
    \/ handleSpeakOverviewCall
    \/ handleProcessCall
    \/ \E i \in 1..Len(requests), result \in Lectures : ProcessSettle(i, TRUE, result)
    \/ \E i \in 1..Len(requests) : ProcessSettle(i, FALSE, Null)

CallSpec == CallInit /\ [][CallNext]_vars

-----------------------------------------------------------------------------
(* The controller's states, read off the invocations in flight *)

Requesting(s) == s.pc \in {"requesting", "awaitDecode"}
Playing(s) == s.pc = "playing"
InState(P(_)) == {i \in 1..Len(sessions) : P(sessions[i])}
Idle == sessions = <<>> /\ ~isSpeaking

SpeakEvents == {"handleSpeakOverview:started", "handleSpeakOverview:ignored"}
FailureKinds == ErrorKinds \cup {"EmptyResponse"}
RenderedCurrent ==
    rendered = View(isAppReady, rawInput, selectedFile, isProcessing, lecture, isSpeaking)

\* a step in which an invocation of handleSpeakOverview ran to its end
SessionEnds == Len(sessions') < Len(sessions)

-----------------------------------------------------------------------------
(* Claims *)

\* C1: a call of handleSpeakOverview made while isSpeaking is true (the
\* controller is Requesting or Playing) changes nothing: no remote call is
\* issued or queued, isSpeaking, the device handle and the running invocation
\* stay as they are.
C1_BusyCallIsNoOp ==
    [][(isSpeaking /\ event' \in SpeakEvents)
         => /\ event' = "handleSpeakOverview:ignored"
            /\ UNCHANGED <<isSpeaking, audioContextRef, ctxCount, sessions, last,
                           rendered, lecture, activeSectionId, errorMsg, isProcessing,
                           rawInput, selectedFile, requests, reads, isAppReady>>]_vars

C1_Witness ==
    /\ event = "handleSpeakOverview:ignored"
    /\ isSpeaking
    /\ InState(Playing) # {}

\* C2: at most one remote TTS call is in flight in every reachable state,
\* whatever the order of calls, renders and completions.
C2_OneCallInFlight == Cardinality(InState(Requesting)) <= 1

C2_Witness ==
    /\ event = "handleSpeakOverview:ignored"
    /\ Cardinality(InState(Requesting)) = 1
    /\ last.outcome # "none"

\* C3: whenever isSpeaking is true, the controller is eventually Idle again
\* with isSpeaking false, provided the remote call settles and the device
\* delivers its end-of-playback notification.
C3_BusyLeadsToIdle == isSpeaking ~> Idle

C3_Witness ==
    /\ Idle
    /\ last.outcome = "DeviceError"
    /\ last.ctx # 0
    /\ event = "decodeContinue"

\* C4: playback is started only in an invocation whose response carried a
\* non-empty payload, whose payload decoded and whose device was obtained; an
\* invocation that failed never started playback.
C4_PlaybackOnlyOnSuccess ==
    /\ \A i \in 1..Len(sessions) :
          (sessions[i].started \/ sessions[i].pc = "playing")
             => /\ sessions[i].started /\ sessions[i].pc = "playing"
                /\ sessions[i].response.kind = "resolve"
                /\ sessions[i].response.hasData /\ sessions[i].response.data # <<>>
                /\ sessions[i].audioBuffer.ok
                /\ sessions[i].ctx # 0 /\ sessions[i].ctx = audioContextRef
    /\ last.started
          => /\ last.outcome = "Played"
             /\ last.response.hasData /\ last.response.data # <<>>
             /\ last.audioBuffer.ok
             /\ last.ctx # 0
    /\ last.outcome \in FailureKinds => ~last.started

C4_Witness ==
    /\ InState(Playing) # {}
    /\ last.outcome = "DecodeError"
    /\ event = "decodeContinue"

\* C5: when the remote call succeeds with no audio payload (missing or
\* empty), the invocation ends in that step with isSpeaking false and without
\* touching the device: no context is built or read, no buffer is decoded.
C5_EmptyResponseSkipsDevice ==
    [][(event' = "ttsSettle" /\ SessionEnds /\ last'.response.kind = "resolve"
          /\ (~last'.response.hasData \/ last'.response.data = <<>>))
         => /\ last'.outcome = "EmptyResponse"
            /\ ~isSpeaking'
            /\ sessions' = <<>>
            /\ UNCHANGED <<audioContextRef, ctxCount>>
            /\ last'.ctx = 0 /\ last'.audioBuffer = NoBuffer /\ ~last'.started]_vars

C5_Witness ==
    /\ event = "ttsSettle"
    /\ last.outcome = "EmptyResponse"
    /\ last.response.hasData /\ last.response.data = <<>>
    /\ audioContextRef = 0
    /\ Idle

\* C6: an invocation that ends in one of the five failures (invalid base64,
\* truncated payload, empty response, remote-call failure, device failure)
\* completes normally: its promise is not rejected, no playback was started
\* and the controller is Idle.
C6_NoFailureEscapes ==
    [][(event' \in {"ttsSettle", "decodeContinue"} /\ SessionEnds)
         => /\ last'.outcome \in FailureKinds
            /\ ~last'.rejected
            /\ ~last'.started
            /\ ~isSpeaking' /\ sessions' = <<>>]_vars

C6_Witness ==
    /\ event = "ttsSettle"
    /\ last.outcome = "EncodingError"
    /\ ~last.rejected
    /\ Idle

\* C7: after an invocation that failed while Requesting, once the failure's
\* state update is rendered, the next call of handleSpeakOverview with a
\* lecture loaded passes the guard, sets isSpeaking and issues a remote call.
SpeakStarts ==
    /\ handleSpeakOverview
    /\ event' = "handleSpeakOverview:started"
    /\ isSpeaking'
    /\ sessions' = <<NewSession>>

SpeakIgnored == handleSpeakOverview /\ event' = "handleSpeakOverview:ignored"

-----------------------------------------------------------------------------
(* Claims about the decoder, checked under DecSpec *)

\* the harness input is a whole number of frames: 2 * numChannels * k bytes
WholeFrames == dec.stray = <<>> /\ Len(dec.pcm) % dec.numChannels = 0
Frames == Len(dec.pcm) \div dec.numChannels

InUnitRange(sample) ==
    sample.den > 0 /\ -sample.den <= sample.num /\ sample.num <= sample.den

\* C8: for every channel count c >= 1 and every payload of 2 * c * k bytes,
\* k >= 0, the decoder returns exactly c channels of k samples each, every
\* sample in [-1.0, 1.0].
C8_ValidPayloadDecodes ==
    (dec.done /\ WholeFrames)
       => /\ dec.result.ok
          /\ Len(dec.result.channels) = dec.numChannels
          /\ \A ch \in 1..Len(dec.result.channels) :
                /\ Len(dec.result.channels[ch]) = Frames
                /\ \A f \in 1..Len(dec.result.channels[ch]) :
                      InUnitRange(dec.result.channels[ch][f])

\* C9: 16-bit integers encoded low byte first, interleaved by channel, and
\* decoded give for every channel and frame a sample that, multiplied by
\* 32768, is within 1 of the integer encoded.
C9_RoundTrip ==
    (dec.done /\ WholeFrames)
       => /\ Frames >= 1 => dec.result.ok
          /\ dec.result.ok
               => /\ Len(dec.result.channels) = dec.numChannels
                  /\ \A ch \in 1..dec.numChannels :
                        /\ Len(dec.result.channels[ch]) = Frames
                        /\ \A f \in 1..Frames :
                              LET sample == dec.result.channels[ch][f]
                                  original == dec.pcm[(f - 1) * dec.numChannels + ch]
                              IN  /\ sample.den > 0
                                  /\ Abs(sample.num * 32768 - original * sample.den)
                                        <= sample.den

C9_Witness ==
    /\ dec.done /\ WholeFrames
    /\ dec.numChannels = 2 /\ Frames = 2
    /\ dec.pcm = <<-32768, 32767, -1, 100>>
    /\ dec.result.ok

\* C10: for every channel count c >= 1, a payload whose byte length is not a
\* multiple of 2 * c makes the decoder fail; no buffer is returned.
C10_MisalignedPayloadFails ==
    (dec.done /\ Len(dec.data) % (2 * dec.numChannels) # 0) => ~dec.result.ok

\* C11: for a payload of whole frames the sample of channel ch at frame i is
\* the interleaved 16-bit sample at index i * c + ch over 32768; interleaved
\* [100, -100, 200, -200, 300, -300] with two channels gives
\* [100, 200, 300] / 32768 and [-100, -200, -300] / 32768.
C11_Deinterleaves ==
    (dec.done /\ WholeFrames /\ Frames >= 1)
       => /\ dec.result.ok
          /\ Len(dec.result.channels) = dec.numChannels
          /\ \A ch \in 0..(dec.numChannels - 1) :
                /\ Len(dec.result.channels[ch + 1]) = Frames
                /\ \A i \in 0..(Frames - 1) :
                      dec.result.channels[ch + 1][i + 1]
                         = [num |-> dec.pcm[i * dec.numChannels + ch + 1], den |-> 32768]
          /\ (dec.pcm = ScenarioPcm /\ dec.numChannels = 2)
                => dec.result.channels
                      = << <<[num |-> 100, den |-> 32768], [num |-> 200, den |-> 32768],
                             [num |-> 300, den |-> 32768]>>,
                           <<[num |-> -100, den |-> 32768], [num |-> -200, den |-> 32768],
                             [num |-> -300, den |-> 32768]>> >>

C11_Witness ==
    /\ dec.done
    /\ dec.pcm = ScenarioPcm /\ dec.stray = <<>> /\ dec.numChannels = 2
    /\ dec.result.ok
    /\ Len(dec.result.channels[1]) = 3

-----------------------------------------------------------------------------
(* Claims about the controller, continued *)

\* C12: the device handle is built at most once: once non-null it is never
\* replaced or reset, every playback uses that handle, and it is written only
\* in the step of handleSpeakOverview that takes an invocation out of its
\* wait for the remote call.
C12_HandleBuiltOnce ==
    [][/\ ctxCount' <= 1
       /\ audioContextRef # 0 => audioContextRef' = audioContextRef
       /\ audioContextRef' # audioContextRef
            => /\ event' = "ttsSettle"
               /\ audioContextRef' = ctxCount'
               /\ \E i \in 1..Len(sessions) :
                     /\ sessions[i].pc = "requesting"
                     /\ \/ /\ Len(sessions') = Len(sessions)
                           /\ sessions'[i].pc = "awaitDecode"
                           /\ sessions'[i].ctx = audioContextRef'
                        \/ /\ SessionEnds
                           /\ last'.ctx = audioContextRef'
       /\ \A i \in 1..Len(sessions') :
             sessions'[i].pc \in {"awaitDecode", "playing"}
                => sessions'[i].ctx # 0 /\ sessions'[i].ctx = audioContextRef']_vars

C12_Witness ==
    /\ last.outcome = "Played"
    /\ last.ctx = audioContextRef
    /\ ctxCount = 1
    /\ \E i \in 1..Len(sessions) :
          sessions[i].pc = "playing" /\ sessions[i].ctx = last.ctx

\* C13: at most one buffer source is playing in every reachable state, and
\* while one plays no other invocation is in flight that could start a second.
C13_OneSourcePlaying ==
    /\ Cardinality(InState(Playing)) <= 1
    /\ InState(Playing) # {} => Len(sessions) = 1

C13_Witness ==
    /\ event = "decodeContinue"
    /\ Cardinality(InState(Playing)) = 1
    /\ last.outcome = "Played"
    /\ last.started

\* C14: while a source is playing isSpeaking is true, and the only step that
\* clears it or ends the playing invocation is source.onended.
C14_OnlyOnEndedLeavesPlaying ==
    [][InState(Playing) # {}
         => /\ isSpeaking
            /\ (~isSpeaking'
                  \/ {i \in 1..Len(sessions') : sessions'[i].pc = "playing"} = {})
                 => /\ event' = "onended"
                    /\ ~isSpeaking'
                    /\ sessions' = <<>>]_vars

C14_Witness ==
    /\ event = "onended"
    /\ Idle
    /\ last.outcome = "Played"
    /\ last.started

\* what the rest of the program can observe of the speak controller besides
\* isSpeaking: the other pieces of component state
OtherState ==
    <<isAppReady, rawInput, selectedFile, isProcessing, errorMsg, lecture,
      activeSectionId>>

\* C15: a failed invocation has the same effect whatever the kind of failure
\* (invalid base64, undecodable payload, empty response, rejected remote call,
\* device failure): isSpeaking is false, no invocation is left in flight,
\* nothing was started, nothing was thrown to the caller, and errorMsg and the
\* rest of the component state are as they were.
C15_FailuresLookAlike ==
    [][(SessionEnds /\ last'.outcome \in FailureKinds)
         => /\ ~isSpeaking'
            /\ sessions' = <<>>
            /\ ~last'.started
            /\ ~last'.rejected
            /\ OtherState' = OtherState]_vars

C15_Witness ==
    /\ last.outcome = "DecodeError"
    /\ last.error = "RangeError"
    /\ ~last.started
    /\ Idle
    /\ errorMsg = Null

\* C16: while the remote call has not settled, isSpeaking stays true, the
\* invocation stays where it is, no step but the settling of the call changes
\* that, and a click on the speak button is ignored.
C16_StalledCallKeepsBusy ==
    [][(\E i \in 1..Len(sessions) : sessions[i].pc = "requesting")
         => /\ isSpeaking
            /\ rendered.isSpeaking
            /\ ~Settles
                 => /\ isSpeaking'
                    /\ sessions' = sessions
                    /\ audioContextRef' = audioContextRef
                    /\ event' \in SpeakEvents => event' = "handleSpeakOverview:ignored"]_vars

C16_Witness ==
    /\ event = "handleSpeakOverview:ignored"
    /\ isSpeaking
    /\ Len(sessions) = 1
    /\ sessions[1].pc = "requesting"

\* C17 as stated: the device handle is created only by an invocation whose
\* payload has decoded, i.e. in the step that creates it the creating
\* invocation holds a decoded buffer.
C17_HandleOnlyAfterDecode ==
    [][audioContextRef' # audioContextRef
         => \E i \in 1..Len(sessions') :
               /\ sessions'[i].ctx = audioContextRef'
               /\ sessions'[i].audioBuffer.ok]_vars

\* C17, amended: the handle is created before the payload is decoded, by the
\* first invocation whose response carries a non-empty payload, whether or not
\* that payload decodes; an invocation that holds a decoder result, good or
\* bad, already holds the handle, and a rejected call or an empty response
\* creates none.
C17_HandleBeforeDecode ==
    [][/\ audioContextRef' # audioContextRef
            => /\ audioContextRef = 0
               /\ event' = "ttsSettle"
               /\ \E i \in 1..Len(sessions) :
                     /\ sessions[i].pc = "requesting"
                     /\ sessions[i].audioBuffer = NoBuffer
                     /\ LET t == IF SessionEnds THEN last' ELSE sessions'[i]
                        IN  /\ t.ctx = audioContextRef'
                            /\ t.response.kind = "resolve"
                            /\ t.response.hasData
                            /\ t.response.data # <<>>
                            /\ SessionEnds => last'.outcome = "EncodingError"
       /\ \A i \in 1..Len(sessions') :
             sessions'[i].pc = "awaitDecode"
                => sessions'[i].ctx # 0 /\ sessions'[i].ctx = audioContextRef'
       /\ (SessionEnds /\ last'.outcome \in {"RemoteCallError", "EmptyResponse"})
            => audioContextRef' = audioContextRef /\ last'.ctx = 0]_vars

\* the first invocation ever holds a payload that failed to decode, and the
\* handle it created
C17_Witness ==
    /\ last = NoLast
    /\ Len(sessions) = 1
    /\ sessions[1].pc = "awaitDecode"
    /\ ~sessions[1].audioBuffer.ok
    /\ sessions[1].ctx = 1
    /\ audioContextRef = 1

\* the controller's state as the specification names it: Requesting from the
\* click to source.start(), Playing from source.start() to onended
CtrlState ==
    IF sessions = <<>> THEN "Idle"
    ELSE IF InState(Playing) # {} THEN "Playing"
    ELSE "Requesting"

Transitions ==
    {<<"Idle", "Requesting">>, <<"Requesting", "Playing">>,
     <<"Requesting", "Idle">>, <<"Playing", "Idle">>}

\* C18: the controller moves only Idle -> Requesting, Requesting -> Playing,
\* Requesting -> Idle and Playing -> Idle.  Requesting is entered only by a
\* click that issues a remote call, Playing only by the invocation that has been
\* Requesting since that click and has received its response, and while it is
\* Requesting no second call is issued.
C18_ThreeStateMachine ==
    [][/\ isSpeaking = (CtrlState # "Idle")
       /\ Len(sessions) <= 1
       /\ CtrlState' # CtrlState => <<CtrlState, CtrlState'>> \in Transitions
       /\ (CtrlState # "Requesting" /\ CtrlState' = "Requesting")
            => /\ event' = "handleSpeakOverview:started"
               /\ sessions' = <<NewSession>>
       /\ (CtrlState # "Playing" /\ CtrlState' = "Playing")
            => /\ event' = "decodeContinue"
               /\ sessions[1].pc = "awaitDecode"
               /\ sessions[1].response.kind = "resolve"
               /\ sessions' = <<[sessions[1] EXCEPT !.pc = "playing", !.started = TRUE]>>
       /\ (CtrlState = "Requesting" /\ CtrlState' = "Requesting")
            => \/ sessions' = sessions
               \/ /\ event' = "ttsSettle"
                  /\ sessions[1].pc = "requesting"
                  /\ sessions'[1].pc = "awaitDecode"]_vars

\* a second session is Requesting after a first one has gone the whole way
C18_Witness ==
    /\ CtrlState = "Requesting"
    /\ sessions[1].pc = "awaitDecode"
    /\ last.outcome = "Played"
    /\ last.started

\* C19: an invocation waits for the event loop only at the remote call and at
\* onended.  The await on the decoder's promise resumes before any other task:
\* from a state where an invocation holds the decoder's result the only step
\* is its own continuation, which starts the source or fails, and nothing else
\* of the component changes in between.
C19_NoTaskBetweenResponseAndStart ==
    [][/\ \A i \in 1..Len(sessions') :
             sessions'[i].pc \in {"requesting", "awaitDecode", "playing"}
       /\ \A i \in 1..Len(sessions) :
             sessions[i].pc = "awaitDecode"
                => /\ event = "ttsSettle"
                   /\ event' = "decodeContinue"
                   /\ \/ /\ Len(sessions') = Len(sessions)
                         /\ sessions'[i] = [sessions[i] EXCEPT !.pc = "playing",
                                                               !.started = TRUE]
                      \/ /\ sessions' = RemoveAt(sessions, i)
                         /\ last'.outcome \in {"DecodeError", "DeviceError"}
                   /\ OtherState' = OtherState
                   /\ rendered' = rendered
                   /\ audioContextRef' = audioContextRef]_vars

C19_Witness ==
    /\ event = "decodeContinue"
    /\ last = NoLast
    /\ Len(sessions) = 1
    /\ sessions[1].pc = "playing"
    /\ sessions[1].started
    /\ sessions[1].audioBuffer.ok

\* sample j (from 0) of a payload as the format defines it: low byte first,
\* two's complement
SignedLE(data, j) ==
    LET v == data[2 * j + 1] + 256 * data[2 * j + 2]
    IN  IF v >= 32768 THEN v - 65536 ELSE v

\* C20: the decoder reads the payload as signed 16-bit little-endian integers:
\* sample j is b[2j] + 256 * b[2j+1], less 65536 from 32768 up, and a
\* one-channel decode yields that value over 32768; bytes (0x00, 0x80) decode
\* to -32768/32768 and bytes (0xFF, 0x7F) to 32767/32768.
C20_SignedLittleEndian ==
    (dec.done /\ Len(dec.data) % 2 = 0)
       => /\ \A j \in 0..(Len(dec.data) \div 2 - 1) :
                /\ Int16Array(dec.data)[j + 1] = SignedLE(dec.data, j)
                /\ Int16Array(dec.data)[j + 1] \in -32768..32767
                /\ (dec.result.ok /\ dec.numChannels = 1)
                     => dec.result.channels[1][j + 1]
                           = [num |-> SignedLE(dec.data, j), den |-> 32768]
          /\ (dec.data = <<0, 128>> /\ dec.numChannels = 1)
               => dec.result.channels = << << [num |-> -32768, den |-> 32768] >> >>
          /\ (dec.data = <<255, 127>> /\ dec.numChannels = 1)
               => dec.result.channels = << << [num |-> 32767, den |-> 32768] >> >>

C20_Witness ==
    /\ dec.done
    /\ dec.numChannels = 1
    /\ dec.data = <<0, 128, 255, 127>>
    /\ dec.result.ok
    /\ dec.result.channels[1][1].num = -32768
    /\ dec.result.channels[1][2].num = 32767

\* C21: isSpeaking agrees with activity.  While it is false no invocation is
\* waiting for the remote call, holding a response or playing; while it is true
\* exactly one invocation is, and that one is Requesting or Playing.
C21_BusyFlagAgrees ==
    /\ ~isSpeaking => /\ sessions = <<>>
                      /\ InState(Requesting) = {}
                      /\ InState(Playing) = {}
    /\ isSpeaking => /\ Len(sessions) = 1
                     /\ Cardinality(InState(Requesting) \cup InState(Playing)) = 1
                     /\ sessions[1].pc = "playing" <=> sessions[1].started

\* the flag is set again, for a new remote call, after a failure had cleared it
C21_Witness ==
    /\ isSpeaking
    /\ Len(sessions) = 1
    /\ sessions[1].pc = "requesting"
    /\ last.outcome \in FailureKinds
    /\ ~last.started

\* C22: a step that clears isSpeaking ends the one invocation that holds the
\* flag.  When onended clears it, the source that fired is that invocation's and
\* was playing; when line 151 clears it, the invocation that failed is that one;
\* in both cases no other invocation is left waiting or playing.
C22_ClearsOwnFlagOnly ==
    [][(isSpeaking /\ ~isSpeaking')
         => /\ Len(sessions) = 1
            /\ sessions' = <<>>
            /\ event' # "ttsSettle" => /\ last'.response = sessions[1].response
                                        /\ last'.ctx = sessions[1].ctx
            /\ IF event' = "onended"
               THEN /\ sessions[1].pc = "playing"
                    /\ last'.outcome = "Played"
                    /\ last'.started
               ELSE /\ event' \in {"ttsSettle", "decodeContinue"}
                    /\ sessions[1].pc # "playing"
                    /\ last'.outcome \in FailureKinds]_vars

\* onended has cleared the flag, the studio still shows the busy state, and no
\* invocation is left
C22_Witness ==
    /\ event = "onended"
    /\ ~isSpeaking
    /\ rendered.isSpeaking
    /\ sessions = <<>>
    /\ last.ctx = audioContextRef
    /\ last.outcome = "Played"

\* C23: Reset Workspace leaves isSpeaking, the device handle and the
\* invocation in flight as they are; and while no lecture is loaded the flag is
\* cleared only by the step that ends that invocation, by onended or by failure.
C23_ResetKeepsSpeech ==
    [][/\ (lecture # Null /\ lecture' = Null)
            => /\ event' = "resetWorkspace"
               /\ isSpeaking' = isSpeaking
               /\ audioContextRef' = audioContextRef
               /\ sessions' = sessions
       /\ (lecture = Null /\ isSpeaking)
            => /\ sessions # <<>>
               /\ ~isSpeaking'
                    => /\ SessionEnds
                       /\ event' \in {"ttsSettle", "decodeContinue", "onended"}]_vars

\* the workspace was reset while the call was pending, and the response that
\* arrived afterwards has started playback
C23_Witness ==
    /\ lecture = Null
    /\ event = "decodeContinue"
    /\ isSpeaking
    /\ Len(sessions) = 1
    /\ sessions[1].pc = "playing"
    /\ sessions[1].started

\* C24: a call of handleSpeakOverview made while no lecture is loaded changes
\* nothing: isSpeaking keeps its value, no remote call is issued and the device
\* handle is not touched.
C24_NoLectureCallIsNoOp ==
    [][(lecture = Null /\ rendered.lecture = Null /\ handleSpeakOverviewCall)
         => /\ event' = "handleSpeakOverview:ignored"
            /\ isSpeaking' = isSpeaking
            /\ sessions' = sessions
            /\ audioContextRef' = audioContextRef
            /\ ctxCount' = ctxCount
            /\ rendered' = rendered
            /\ OtherState' = OtherState]_vars

C24_Witness ==
    /\ event = "handleSpeakOverview:ignored"
    /\ lecture = Null
    /\ ~isSpeaking
    /\ sessions = <<>>
    /\ audioContextRef = 0

\* C25: handleProcess clears its busy flag.  A call that goes ahead sets
\* isProcessing and issues one request; the step in which processLectureContent
\* settles, resolved or rejected, leaves isProcessing false; and a call made
\* with blank text and no file selected changes nothing and issues no request.
C25_ProcessClearsBusy ==
    [][/\ Len(requests') > Len(requests)
            => /\ event' = "handleProcess:started"
               /\ isProcessing'
               /\ Len(requests') = Len(requests) + 1
       /\ Len(requests') < Len(requests)
            => /\ event' \in {"process:resolved", "process:rejected"}
               /\ ~isProcessing'
       /\ (Blank(rendered.rawInput) /\ rendered.selectedFile = Null /\ handleProcessCall)
            => /\ event' = "handleProcess:ignored"
               /\ requests' = requests
               /\ rendered' = rendered
               /\ OtherState' = OtherState
               /\ isSpeaking' = isSpeaking]_vars

\* the pending request was rejected, which cleared the flag before any render,
\* and a call made afterwards with blank text and no file was ignored
C25_Witness ==
    /\ event = "handleProcess:ignored"
    /\ Blank(rawInput)
    /\ selectedFile = Null
    /\ errorMsg # Null
    /\ ~isProcessing
    /\ rendered.isProcessing
    /\ requests = <<>>

\* C26: when processLectureContent rejects, lecture and activeSectionId are
\* left as they were and errorMsg becomes non-null; when it resolves, lecture
\* becomes a returned lecture and errorMsg is null, as it has been since the
\* request began.
C26_ProcessOutcome ==
    [][Len(requests') < Len(requests)
         => IF event' = "process:rejected"
            THEN /\ lecture' = lecture
                 /\ activeSectionId' = activeSectionId
                 /\ errorMsg' # Null
            ELSE /\ event' = "process:resolved"
                 /\ lecture' \in Lectures
                 /\ errorMsg = Null
                 /\ errorMsg' = Null]_vars

C26_Witness ==
    /\ event = "process:resolved"
    /\ lecture = "L1"
    /\ activeSectionId = "a"
    /\ errorMsg = Null
    /\ ~isProcessing

\* C27: activeSectionId is null or the id of a section of the lecture that is
\* loaded, and so never an id kept from a lecture loaded before.
C27_ActiveSectionOfLecture ==
    \/ activeSectionId = Null
    \/ /\ lecture # Null
       /\ \E k \in 1..Len(Sections(lecture)) : Sections(lecture)[k] = activeSectionId

====
